---- MODULE Spec2Model ----
(***************************************************************************)
(* Bulk-add pipeline of the inventory page.                                *)
(*                                                                         *)
(* NewBulkAddModal (src/unnamed/part_000) holds the row store              *)
(* (spreadsheetData), the selection set (selectedTemplates) and the view   *)
(* mode; InventoryPage (second half of NewTemplatesView.tsx) owns the      *)
(* open flag (showTemplatesPanel) and the asynchronous bulk-create         *)
(* (handleBulkAddProducts).  Every event handler runs to completion, so    *)
(* each handler is one action; a createProduct promise settling is one     *)
(* action too, and carries the await-continuation of handleBulkAddProducts *)
(* when it is the last promise of its Promise.allSettled.                  *)
(*                                                                         *)
(* Line numbers in the comments are those of src/unnamed/part_000          *)
(* (NewBulkAddModal) up to line 294, and those of                          *)
(* src/src/components/inventory/templates/NewTemplatesView.tsx where the   *)
(* comment says "page" or "page file".  lastOp, calls and before are       *)
(* history variables: the handler that ran last, the collaborator calls it *)
(* made, and the state it started from; toggled and openedFor are history  *)
(* variables too (the parity of the template clicks, the product each      *)
(* product modal was opened for).                                          *)
(*                                                                         *)
(* Spec     the whole pipeline with every interleaving of the promises;    *)
(*          cells receive the two required fields only.                    *)
(* SpecRows the row store with every field and every cell input, edited    *)
(*          while no bulk create is awaiting.                              *)
(* SpecSelection  the selection set with every template object.            *)
(* SpecFilter     the template filter of NewTemplatesView.                 *)
(* SpecPage       the single-product modals of InventoryPage and the       *)
(*                variation modal, with the product store's promises.      *)
(***************************************************************************)
EXTENDS Integers, Sequences, FiniteSets

\* ------------------------------------------------------------------ bounds

\* Field edits are accepted while at most MaxCells cells are non-blank.
MaxCells == 3
\* handleBulkAddProducts invocations that may be awaiting at the same time.
MaxInFlight == 1
\* Longest template list the catalog hands to NewTemplatesView.
MaxCatalog == 3
\* Single-product handlers that may be awaiting at the same time.
MaxPending == 1

\* ------------------------------------------------------- program constants

\* Array.from({ length: 20 }, ...)
InitialRowCount == 20
\* Number(row.lowStockThreshold) || 10
DefaultLowStockThreshold == 10

\* ------------------------------------------------------------ value model

\* A field of type  number | ''  is <<>> for '' and <<n>> for the number n.
Unset == <<>>
Num(n) == <<n>>

\* A name is a sequence of characters; SP is the blank character.
SP == " "

RECURSIVE TrimLeft(_)
TrimLeft(s) ==
  IF s # <<>> /\ Head(s) = SP THEN TrimLeft(Tail(s)) ELSE s

RECURSIVE TrimRight(_)
TrimRight(s) ==
  IF s # <<>> /\ s[Len(s)] = SP THEN TrimRight(SubSeq(s, 1, Len(s) - 1)) ELSE s

\* String.prototype.trim
Trim(s) == TrimRight(TrimLeft(s))

\* JavaScript truthiness of a string
Truthy(s) == s # <<>>

\* Number(x) for x : number | ''   (Number('') is 0)
ToNumber(x) == IF x = Unset THEN 0 ELSE x[1]

\* a || d  for a number a  (0 is falsy)
OrElse(a, d) == IF a = 0 THEN d ELSE a

\* String.prototype.toLowerCase, on the letters the model uses
LowerChar(c) ==
  CASE c = "A" -> "a"
    [] c = "B" -> "b"
    [] OTHER   -> c
toLowerCase(s) == [k \in 1..Len(s) |-> LowerChar(s[k])]

\* String.prototype.includes
includes(s, sub) ==
  \E i \in 0..(Len(s) - Len(sub)) : SubSeq(s, i + 1, i + Len(sub)) = sub

\* the 'all' sentinel of the category select
All == <<"a", "l", "l">>

\* ------------------------------------------------------------ input sets

\* ProductTemplate objects handed to onTemplateSelect: ref tells apart two
\* objects of the catalog that carry the same id (a refetched template)
Templates == {[id |-> "t1", ref |-> 1], [id |-> "t1", ref |-> 2],
              [id |-> "t2", ref |-> 1]}
TemplateIds == {t.id : t \in Templates}
\* the template clicked where the selection is not what is studied
QuickTemplates == {[id |-> "t1", ref |-> 1]}
\* the rows (1-based positions) that receive field edits; the others stay blank
EditedRows == {1, 2}
\* lengths of the product list the variation modal hands to onSave
VariationSizes == {1, 2}
\* catalog entries: category is <<>> when the template has none, <<c>> else
CatalogTemplates ==
  {[id |-> "t1", name |-> <<"A", "b">>, category |-> << <<"b">> >>],
   [id |-> "t2", name |-> <<"b">>, category |-> << <<"A">> >>],
   [id |-> "t3", name |-> <<"a", SP, "b">>, category |-> <<>>]}
\* what useProductTemplates returns as templates: an array, or not one
TemplatesInputs ==
  {[isArray |-> TRUE, items |-> items] :
     items \in UNION {[1..n -> CatalogTemplates] : n \in 0..MaxCatalog}}
  \cup {[isArray |-> FALSE, items |-> <<>>]}
SearchInputs == {<<>>, <<SP>>, <<"a">>, <<"A", SP>>, <<SP, "b">>, <<"A", "B">>,
                 <<"a", SP, "b">>, <<"b", "b">>}
CategorySelections == {All, <<"A">>, <<"a">>, <<"b">>}
\* products of the grid
PageProducts == {[id |-> "p1", currentStock |-> 0],
                 [id |-> "p2", currentStock |-> 5]}
\* the modals that show selectedProduct
ProductModals == {"edit", "delete", "restock"}
\* quantities entered in the restock modal
RestockQuantities == {3}
NameInputs == {<<>>, <<SP>>, <<SP, "X", SP>>}
CategoryInputs == {"", "General"}
\* raw text typed into the selling price cell, and into the other numeric cells
PriceInputs == {"", "abc", "-1", "0", "7"}
NumberInputs == {"", "0", "7"}
Fields == {"name", "category", "costPrice", "sellingPrice", "currentStock",
           "lowStockThreshold"}

\* ------------------------------------------------------------------ state

VARIABLES
  showTemplatesPanel,   \* InventoryPage: isOpen of NewBulkAddModal
  showVariationModal,   \* InventoryPage: isOpen of VariationProductModal
  viewMode,             \* NewBulkAddModal: 'spreadsheet' | 'templates'
  selectedTemplates,    \* NewBulkAddModal: sequence of ProductTemplate
  spreadsheetData,      \* NewBulkAddModal: sequence of BulkProductRow
  jobs,                 \* awaiting handleBulkAddProducts calls: slot -> statuses
  lastOp,               \* the handler (or promise event) that ran last
  calls,                \* collaborator calls made by that handler, in order
  before,               \* <<pipeline state the handler started from>> or <<>>
  toggled,              \* ids toggled an odd number of times since the
                        \* pipeline was last cleared or closed
  templates,            \* NewTemplatesView: templates of useProductTemplates
  localSearchTerm,      \* NewTemplatesView: text of the search box
  selectedCategory,     \* NewTemplatesView: value of the category select
  showAddModal,         \* InventoryPage: isOpen of AddProductModal
  showUncountableModal, \* InventoryPage: isOpen of UncountableProductModal
  showEditModal,        \* InventoryPage: isOpen of EditProductModal
  showDeleteModal,      \* InventoryPage: isOpen of DeleteProductModal
  showRestockModal,     \* InventoryPage: isOpen of RestockModal
  selectedProduct,      \* InventoryPage: <<>> for null, <<product>> else
  ops,                  \* awaiting single-product handlers, oldest first
  openedFor             \* modal -> the product it was last opened for

\* the state of NewTemplatesView
catalogVars == <<templates, localSearchTerm, selectedCategory>>

\* the state of InventoryPage around its single-product modals
pageVars == <<showAddModal, showUncountableModal, showEditModal,
              showDeleteModal, showRestockModal, selectedProduct, ops,
              openedFor>>

\* the state of the bulk-add pipeline and of the variation modal
pipelineVars == <<showTemplatesPanel, showVariationModal, viewMode,
                  selectedTemplates, spreadsheetData, jobs, toggled>>

vars == <<showTemplatesPanel, showVariationModal, viewMode, selectedTemplates,
          spreadsheetData, jobs, lastOp, calls, before, toggled, templates,
          localSearchTerm, selectedCategory, showAddModal,
          showUncountableModal, showEditModal, showDeleteModal,
          showRestockModal, selectedProduct, ops, openedFor>>

Slots == 1..MaxInFlight

\* ----------------------------------------------------------------- rows

\* lines 46-56: the row created for index (id is `row_${index}`)
BlankRow(index) ==
  [id |-> index, name |-> <<>>, category |-> "", costPrice |-> Unset,
   sellingPrice |-> Unset, currentStock |-> Unset, lowStockThreshold |-> Unset,
   isValid |-> FALSE, errors |-> <<>>]

InitialData == [i \in 1..InitialRowCount |-> BlankRow(i - 1)]

\* handleClearAll's callback without  name: ''
ClearedRow_KeepsName(row) ==
  [row EXCEPT !.category = "", !.costPrice = Unset,
              !.sellingPrice = Unset, !.currentStock = Unset,
              !.lowStockThreshold = Unset, !.isValid = FALSE, !.errors = <<>>]

\* handleClearAll's callback without  isValid: false
ClearedRow_KeepsValid(row) ==
  [row EXCEPT !.name = <<>>, !.category = "", !.costPrice = Unset,
              !.sellingPrice = Unset, !.currentStock = Unset,
              !.lowStockThreshold = Unset, !.errors = <<>>]

\* handleClearAll's callback without  sellingPrice: ''
ClearedRow_KeepsPrice(row) ==
  [row EXCEPT !.name = <<>>, !.category = "", !.costPrice = Unset,
              !.currentStock = Unset, !.lowStockThreshold = Unset,
              !.isValid = FALSE, !.errors = <<>>]

\* lines 99-109: handleClearAll's map callback
ClearedRow(row) ==
  [row EXCEPT !.name = <<>>, !.category = "", !.costPrice = Unset,
              !.sellingPrice = Unset, !.currentStock = Unset,
              !.lowStockThreshold = Unset, !.isValid = FALSE, !.errors = <<>>]

\* the filter predicate without  row.isValid &&
Qualifies_NameOnly(row) == Truthy(Trim(row.name))

\* line 114: the filter predicate of handleSave
Qualifies(row) == row.isValid /\ Truthy(Trim(row.name))

\* line 114
ValidRows(rows) == SelectSeq(rows, Qualifies)

\* handleSave's callback with  name: row.name
ToProduct_UntrimmedName(row) ==
  [name |-> row.name,
   category |-> row.category,
   costPrice |-> OrElse(ToNumber(row.costPrice), 0),
   sellingPrice |-> ToNumber(row.sellingPrice),
   currentStock |-> OrElse(ToNumber(row.currentStock), 0),
   lowStockThreshold |-> OrElse(ToNumber(row.lowStockThreshold),
                                DefaultLowStockThreshold),
   description |-> "", barcode |-> "", imageUrl |-> ""]

\* lines 125-135: handleSave's map callback
ToProduct(row) ==
  [name |-> Trim(row.name),
   category |-> row.category,
   costPrice |-> OrElse(ToNumber(row.costPrice), 0),
   sellingPrice |-> ToNumber(row.sellingPrice),
   currentStock |-> OrElse(ToNumber(row.currentStock), 0),
   lowStockThreshold |-> OrElse(ToNumber(row.lowStockThreshold),
                                DefaultLowStockThreshold),
   description |-> "", barcode |-> "", imageUrl |-> ""]

\* lines 125-135
Products(rows) == [k \in 1..Len(rows) |-> ToProduct(rows[k])]

IsValidRow(row) == row.isValid
IsFilledRow(row) == Truthy(Trim(row.name))

\* line 180
validProductsCount(rows) == Len(SelectSeq(rows, IsValidRow))
\* line 181
filledProductsCount(rows) == Len(SelectSeq(rows, IsFilledRow))

\* ------------------------------------------- NewSpreadsheetView (row edits)
\* NewSpreadsheetView is imported by NewBulkAddModal (line 11) and receives
\* data and onDataChange = setSpreadsheetData (lines 232-236).  Its parsing and
\* validation follow section 4.1 of the specification.

\* non-numeric text is the unset sentinel
ParseNumber(raw) ==
  CASE raw = "-1" -> Num(-1)
    [] raw = "0"  -> Num(0)
    [] raw = "7"  -> Num(7)
    [] OTHER      -> Unset

NameOk(row) == Truthy(Trim(row.name))
SellingPriceOk(row) == row.sellingPrice # Unset /\ row.sellingPrice[1] >= 0

\* validate(row) -> (isValid, errors)
validate(row) ==
  [isValid |-> NameOk(row) /\ SellingPriceOk(row),
   errors |-> (IF NameOk(row) THEN <<>> ELSE <<"Name is required">>)
              \o (IF SellingPriceOk(row) THEN <<>>
                  ELSE <<"Selling price is required">>)]

Revalidated(row) ==
  [row EXCEPT !.isValid = validate(row).isValid, !.errors = validate(row).errors]

\* updateField(rowId, field, rawValue): one field edit, that row re-validated
updateField(rows, i, field, value) ==
  [rows EXCEPT ![i] = Revalidated([rows[i] EXCEPT ![field] = value])]

\* cells of the editable rows that differ from a blank row's
NonBlankCells(rows) ==
  Cardinality({c \in EditedRows \X Fields :
                 c[1] <= Len(rows) /\ rows[c[1]][c[2]] # BlankRow(0)[c[2]]})

\* --------------------------------------------------- collaborator calls

Call(c, ps, s) ==
  [call |-> c, products |-> ps, title |-> "", variant |-> "", counts |-> <<>>,
   slot |-> s]

\* toast({title, description, variant}); counts are the numbers the
\* description interpolates, slot the bulk-create they are about (0: none)
Toast(t, v, ns, s) ==
  [call |-> "toast", products |-> <<>>, title |-> t, variant |-> v,
   counts |-> ns, slot |-> s]

\* link.download = name; link.click() on a Blob of the type and content: the
\* record holds the content in products, the name in title, the type in variant
Download(name, type, content) ==
  [call |-> "link.click", products |-> content, title |-> name,
   variant |-> type, counts |-> <<>>, slot |-> 0]

CallsOf(cs, c) == SelectSeq(cs, LAMBDA e : e.call = c)

Snapshot ==
  <<[rows |-> spreadsheetData, sel |-> selectedTemplates, view |-> viewMode,
     open |-> showTemplatesPanel, jobs |-> jobs]>>

\* ------------------------------------------------ InventoryPage: bulk create

Fulfilled(r) == r = "fulfilled"
Rejected(r) == r = "rejected"

\* the lowest slot that holds no awaiting bulk create (0: none)
FreeSlot ==
  IF \E s \in Slots : jobs[s] = <<>>
  THEN CHOOSE s \in Slots : jobs[s] = <<>> /\ \A t \in Slots : jobs[t] = <<>> => s <= t
  ELSE 0

\* page lines 433-435: productsData.map(productData => createProduct(productData)),
\* reached through the onSave prop (page lines 659 and 671)
BulkCalls(ps, s) ==
  <<Call("onSave", ps, s)>> \o [k \in 1..Len(ps) |-> Call("createProduct", <<ps[k]>>, s)]

\* the promises handed to Promise.allSettled
BulkPromises(ps) == [k \in 1..Len(ps) |-> "pending"]

\* page line 437 counting every result
Successful_CountsAll(results) == Len(results)

\* page line 437
Successful(results) == Len(SelectSeq(results, Fulfilled))
\* page line 438
Failed(results) == Len(SelectSeq(results, Rejected))

\* page lines 442-455
BulkToast(results, s) ==
  IF Failed(results) = 0
  THEN Toast("Bulk Products Added", "default", <<Successful(results)>>, s)
  ELSE Toast("Partial Success", "destructive",
             <<Successful(results), Failed(results)>>, s)

\* ------------------------------------------- NewTemplatesView: the filter

\* the search predicate with  template.name.includes(searchLower)
MatchesSearch_CaseSensitive(template, searchLower) ==
  \/ includes(template.name, searchLower)
  \/ /\ template.category # <<>>
     /\ includes(toLowerCase(template.category[1]), searchLower)

\* page file lines 41-44: the callback of the search filter
MatchesSearch(template, searchLower) ==
  \/ includes(toLowerCase(template.name), searchLower)
  \/ /\ template.category # <<>>
     /\ includes(toLowerCase(template.category[1]), searchLower)

\* page file line 49: template.category === selectedCategory
MatchesCategory(template, category) ==
  template.category # <<>> /\ template.category[1] = category

\* page file lines 39-45: the search stage
SearchStage(items, term) ==
  IF Truthy(Trim(term))
  THEN SelectSeq(items, LAMBDA t : MatchesSearch(t, Trim(toLowerCase(term))))
  ELSE items

\* page file lines 48-50: the category stage
CategoryStage(items, category) ==
  IF Truthy(category) /\ category # All
  THEN SelectSeq(items, LAMBDA t : MatchesCategory(t, category))
  ELSE items

\* page file lines 33-53: the body of the useMemo
FilterTemplates(ts, term, category) ==
  IF ~ts.isArray THEN <<>>
  ELSE CategoryStage(SearchStage(ts.items, term), category)

\* page file line 33
filteredTemplates ==
  FilterTemplates(templates, localSearchTerm, selectedCategory)

\* ------------------------------------------------------------------ Init

Init ==
  /\ showTemplatesPanel = FALSE
  /\ showVariationModal = FALSE
  /\ viewMode = "spreadsheet"
  /\ selectedTemplates = <<>>
  /\ spreadsheetData = <<>>
  /\ jobs = [s \in Slots |-> <<>>]
  /\ lastOp = "init"
  /\ calls = <<>>
  /\ before = <<>>
  /\ toggled = {}
  /\ templates = [isArray |-> TRUE, items |-> <<>>]
  /\ localSearchTerm = <<>>
  /\ selectedCategory = <<>>
  /\ showAddModal = FALSE
  /\ showUncountableModal = FALSE
  /\ showEditModal = FALSE
  /\ showDeleteModal = FALSE
  /\ showRestockModal = FALSE
  /\ selectedProduct = <<>>
  /\ ops = <<>>
  /\ openedFor = [m \in ProductModals |-> <<>>]

\* --------------------------------------------------------------- actions

\* the effect without  spreadsheetData.length === 0
InitializeRows_OnEveryOpen(wasOpen, isOpen, rows) ==
  IF isOpen /\ ~wasOpen THEN InitialData ELSE rows

\* lines 44-59: useEffect([isOpen]) after isOpen went from wasOpen to isOpen
InitializeRows(wasOpen, isOpen, rows) ==
  IF isOpen /\ ~wasOpen /\ Len(rows) = 0 THEN InitialData ELSE rows

\* page lines 386-401, modes 'bulk' and 'variation'
handleAddProductMode(mode) ==
  /\ mode \in {"normal", "bulk", "uncountable", "variation"}
  /\ showAddModal' = (showAddModal \/ mode = "normal")
  /\ showUncountableModal' = (showUncountableModal \/ mode = "uncountable")
  /\ IF mode = "bulk"
     THEN /\ showTemplatesPanel' = TRUE
          /\ spreadsheetData' = InitializeRows(showTemplatesPanel, TRUE, spreadsheetData)
          /\ UNCHANGED showVariationModal
     ELSE /\ showVariationModal' = (showVariationModal \/ mode = "variation")
          /\ UNCHANGED <<showTemplatesPanel, spreadsheetData>>
  /\ lastOp' = "handleAddProductMode"
  /\ UNCHANGED catalogVars
  /\ UNCHANGED <<showEditModal, showDeleteModal, showRestockModal,
                 selectedProduct, ops, openedFor>>
  /\ calls' = <<>>
  /\ before' = Snapshot
  /\ UNCHANGED <<viewMode, selectedTemplates, jobs, toggled>>

\* NewSpreadsheetView calling onDataChange after one field edit
EditField(i, field, value) ==
  /\ showTemplatesPanel
  /\ i \in EditedRows
  /\ i <= Len(spreadsheetData)
  /\ NonBlankCells(updateField(spreadsheetData, i, field, value)) <= MaxCells
  /\ spreadsheetData' = updateField(spreadsheetData, i, field, value)
  /\ lastOp' = "updateField"
  /\ UNCHANGED <<catalogVars, pageVars>>
  /\ calls' = <<>>
  /\ before' = <<>>
  /\ UNCHANGED <<showTemplatesPanel, showVariationModal, viewMode,
                 selectedTemplates, jobs, toggled>>

\* page file lines 29-30 (NewTemplatesView), and line 88
isSelected(selected, template) ==
  \E k \in 1..Len(selected) : selected[k].id = template.id

\* lines 87-94: the updater of setSelectedTemplates
ToggledSelection(prev, template) ==
  IF \E k \in 1..Len(prev) : prev[k].id = template.id
  THEN SelectSeq(prev, LAMBDA t : t.id # template.id)
  ELSE Append(prev, template)

\* lines 86-95
handleTemplateSelect(template) ==
  /\ showTemplatesPanel
  /\ selectedTemplates' = ToggledSelection(selectedTemplates, template)
  /\ lastOp' = "handleTemplateSelect"
  /\ UNCHANGED <<catalogVars, pageVars>>
  /\ calls' = <<Call("onTemplateSelect", <<template>>, 0)>>
  /\ before' = Snapshot
  /\ toggled' = (IF template.id \in toggled THEN toggled \ {template.id}
                 ELSE toggled \cup {template.id})
  /\ UNCHANGED <<showTemplatesPanel, showVariationModal, viewMode,
                 spreadsheetData, jobs>>

\* lines 176-178
toggleView ==
  /\ showTemplatesPanel
  /\ viewMode' = (IF viewMode = "spreadsheet" THEN "templates" ELSE "spreadsheet")
  /\ lastOp' = "toggleView"
  /\ UNCHANGED <<catalogVars, pageVars>>
  /\ calls' = <<>>
  /\ before' = <<>>
  /\ UNCHANGED <<showTemplatesPanel, showVariationModal, selectedTemplates,
                 spreadsheetData, jobs, toggled>>

\* Array.prototype.join(sep): the elements with sep between them
RECURSIVE Join(_, _)
Join(lines, sep) ==
  IF Len(lines) <= 1 THEN lines
  ELSE <<Head(lines), sep>> \o Join(Tail(lines), sep)

\* the array literal followed by one line for each filled row of the store
CsvLines_WithRows ==
  <<"Name,Category,Cost Price,Selling Price,Current Stock,Low Stock Threshold",
    "Sample Product,General,10.00,15.00,100,10",
    "Another Product,Electronics,25.50,35.00,50,5">>
  \o [k \in 1..filledProductsCount(spreadsheetData) |-> "row"]

\* lines 154-158: the array literal
CsvLines ==
  <<"Name,Category,Cost Price,Selling Price,Current Stock,Low Stock Threshold",
    "Sample Product,General,10.00,15.00,100,10",
    "Another Product,Electronics,25.50,35.00,50,5">>

\* lines 153-174
downloadTemplate ==
  /\ showTemplatesPanel
  /\ lastOp' = "downloadTemplate"
  /\ calls' = <<Download("bulk-products-template.csv", "text/csv",
                         Join(CsvLines, "\n")),
                Toast("Template Downloaded", "default", <<>>, 0)>>
  /\ before' = Snapshot
  /\ UNCHANGED <<showTemplatesPanel, showVariationModal, viewMode,
                 selectedTemplates, spreadsheetData, jobs, toggled>>
  /\ UNCHANGED <<catalogVars, pageVars>>

\* lines 99-110
ClearedData(rows) == [k \in 1..Len(rows) |-> ClearedRow(rows[k])]

\* lines 97-111
handleClearAll ==
  /\ showTemplatesPanel
  /\ selectedTemplates' = <<>>
  /\ spreadsheetData' = ClearedData(spreadsheetData)
  /\ lastOp' = "handleClearAll"
  /\ UNCHANGED <<catalogVars, pageVars>>
  /\ calls' = <<>>
  /\ before' = Snapshot
  /\ toggled' = {}
  /\ UNCHANGED <<showTemplatesPanel, showVariationModal, viewMode, jobs>>

\* line 183: a closed modal renders nothing, so NewTemplatesView unmounts and
\* its useState values (page file lines 18-19) are the initial ones on the
\* next mount
Unmounted ==
  /\ localSearchTerm' = <<>>
  /\ selectedCategory' = <<>>
  /\ UNCHANGED templates

\* handleClose without  setSelectedTemplates([])
ResetAndClose_KeepsSelection ==
  /\ viewMode' = "spreadsheet"
  /\ UNCHANGED selectedTemplates
  /\ spreadsheetData' = <<>>
  /\ showTemplatesPanel' = FALSE
  /\ toggled' = {}
  /\ Unmounted

\* lines 147-150: the body of handleClose; onClose is
\* () => setShowTemplatesPanel(false)  (page line 658)
ResetAndClose ==
  /\ viewMode' = "spreadsheet"
  /\ selectedTemplates' = <<>>
  /\ spreadsheetData' = <<>>
  /\ showTemplatesPanel' = FALSE
  /\ toggled' = {}
  /\ Unmounted

\* lines 146-151
handleClose ==
  /\ showTemplatesPanel
  /\ ResetAndClose
  /\ lastOp' = "handleClose"
  /\ calls' = <<Call("onClose", <<>>, 0)>>
  /\ before' = <<>>
  /\ UNCHANGED pageVars
  /\ UNCHANGED <<showVariationModal, jobs>>

\* the empty branch without its  return  (falls through to handleClose)
NoValidProducts_Closes ==
  /\ calls' = <<Toast("No Valid Products", "destructive", <<>>, 0),
                Call("onClose", <<>>, 0)>>
  /\ ResetAndClose
  /\ UNCHANGED jobs
  /\ UNCHANGED pageVars

\* lines 116-123
NoValidProducts ==
  /\ calls' = <<Toast("No Valid Products", "destructive", <<>>, 0)>>
  /\ UNCHANGED <<catalogVars, pageVars>>
  /\ UNCHANGED <<showTemplatesPanel, viewMode, selectedTemplates,
                 spreadsheetData, jobs, toggled>>

\* lines 125-143
SaveProducts(products, s) ==
  /\ jobs' = [jobs EXCEPT ![s] = BulkPromises(products)]
  /\ calls' = BulkCalls(products, s)
               \o <<Toast("Products Added", "default", <<Len(products)>>, s),
                    Call("onClose", <<>>, 0)>>
  /\ ResetAndClose
  /\ UNCHANGED pageVars

\* lines 113-144
handleSave ==
  /\ showTemplatesPanel
  /\ IF Len(ValidRows(spreadsheetData)) = 0
     THEN NoValidProducts
     ELSE /\ FreeSlot # 0
          /\ SaveProducts(Products(ValidRows(spreadsheetData)), FreeSlot)
  /\ lastOp' = "handleSave"
  /\ before' = Snapshot
  /\ UNCHANGED showVariationModal

\* the product list the variation modal builds (its fields are its own)
VariationProducts(n) ==
  [k \in 1..n |->
     [name |-> <<"V">>, category |-> "General", costPrice |-> 0,
      sellingPrice |-> k, currentStock |-> 0, lowStockThreshold |-> 0,
      description |-> "", barcode |-> "", imageUrl |-> ""]]

\* page lines 668-673: VariationProductModal calling onSave = handleBulkAddProducts
VariationSave(n) ==
  /\ showVariationModal
  /\ n \in VariationSizes
  /\ FreeSlot # 0
  /\ jobs' = [jobs EXCEPT ![FreeSlot] = BulkPromises(VariationProducts(n))]
  /\ calls' = BulkCalls(VariationProducts(n), FreeSlot)
  /\ lastOp' = "VariationSave"
  /\ UNCHANGED <<catalogVars, pageVars>>
  /\ before' = Snapshot
  /\ UNCHANGED <<showTemplatesPanel, showVariationModal, viewMode,
                 selectedTemplates, spreadsheetData, toggled>>

\* page line 670: onClose of the variation modal
VariationClose ==
  /\ showVariationModal
  /\ showVariationModal' = FALSE
  /\ lastOp' = "VariationClose"
  /\ UNCHANGED <<catalogVars, pageVars>>
  /\ calls' = <<>>
  /\ before' = <<>>
  /\ UNCHANGED <<showTemplatesPanel, viewMode, selectedTemplates,
                 spreadsheetData, jobs, toggled>>

\* page lines 437-455: what runs once Promise.allSettled has resolved
BulkSettled(results, s) ==
  /\ jobs' = [jobs EXCEPT ![s] = <<>>]
  /\ showTemplatesPanel' = FALSE
  /\ calls' = <<BulkToast(results, s)>>
  /\ toggled' = {}
  /\ Unmounted
  /\ UNCHANGED pageVars

\* The i-th createProduct promise of the bulk create in slot s settles with
\* outcome; when it is the last one, the continuation of the await runs in the
\* same microtask drain (page lines 433-455).
SettleCreate(s, i, outcome) ==
  /\ s \in Slots
  /\ i \in 1..Len(jobs[s])
  /\ jobs[s][i] = "pending"
  /\ LET results == [jobs[s] EXCEPT ![i] = outcome] IN
       IF \E k \in 1..Len(results) : results[k] = "pending"
       THEN /\ jobs' = [jobs EXCEPT ![s] = results]
            /\ calls' = <<>>
            /\ UNCHANGED <<showTemplatesPanel, toggled>>
            /\ UNCHANGED <<catalogVars, pageVars>>
       ELSE BulkSettled(results, s)
  /\ lastOp' = (IF outcome = "fulfilled" THEN "createProduct fulfilled"
                ELSE "createProduct rejected")
  /\ before' = Snapshot
  /\ UNCHANGED <<showVariationModal, viewMode, selectedTemplates, spreadsheetData>>

\* useProductTemplates hands NewTemplatesView a new templates value
\* (page file lines 21-27)
TemplatesChanged(value) ==
  /\ showTemplatesPanel
  /\ value \in TemplatesInputs
  /\ templates' = value
  /\ lastOp' = "useProductTemplates"
  /\ calls' = <<>>
  /\ before' = <<>>
  /\ UNCHANGED <<showTemplatesPanel, showVariationModal, viewMode,
                 selectedTemplates, spreadsheetData, jobs, toggled,
                 localSearchTerm, selectedCategory>>
  /\ UNCHANGED pageVars

\* page file line 85: onChange of the search box
setLocalSearchTerm(term) ==
  /\ showTemplatesPanel
  /\ localSearchTerm' = term
  /\ lastOp' = "setLocalSearchTerm"
  /\ calls' = <<>>
  /\ before' = <<>>
  /\ UNCHANGED <<showTemplatesPanel, showVariationModal, viewMode,
                 selectedTemplates, spreadsheetData, jobs, toggled,
                 templates, selectedCategory>>
  /\ UNCHANGED pageVars

\* page file line 91: onValueChange of the category select
setSelectedCategory(category) ==
  /\ showTemplatesPanel
  /\ selectedCategory' = category
  /\ lastOp' = "setSelectedCategory"
  /\ calls' = <<>>
  /\ before' = <<>>
  /\ UNCHANGED <<showTemplatesPanel, showVariationModal, viewMode,
                 selectedTemplates, spreadsheetData, jobs, toggled,
                 templates, localSearchTerm>>
  /\ UNCHANGED pageVars

\* ------------------------------------- InventoryPage: single-product modals

PageSnapshot ==
  <<[add |-> showAddModal, uncountable |-> showUncountableModal,
     edit |-> showEditModal, delete |-> showDeleteModal,
     restock |-> showRestockModal, selected |-> selectedProduct, ops |-> ops]>>

\* an awaiting handler: its name, the selectedProduct of its closure and the
\* stock it computed (restock only)
Op(handler, product, newStock) ==
  [handler |-> handler, product |-> product, newStock |-> newStock]

RemoveAt(seq, i) == SubSeq(seq, 1, i - 1) \o SubSeq(seq, i + 1, Len(seq))

\* page lines 466-470
handleEditProduct(product) ==
  /\ selectedProduct' = <<product>>
  /\ showEditModal' = TRUE
  /\ openedFor' = [openedFor EXCEPT !["edit"] = <<product>>]
  /\ lastOp' = "handleEditProduct"
  /\ calls' = <<>>
  /\ before' = PageSnapshot
  /\ UNCHANGED <<showAddModal, showUncountableModal, showDeleteModal,
                 showRestockModal, ops>>
  /\ UNCHANGED <<pipelineVars, catalogVars>>

\* page lines 501-505
handleDeleteProduct(product) ==
  /\ selectedProduct' = <<product>>
  /\ showDeleteModal' = TRUE
  /\ openedFor' = [openedFor EXCEPT !["delete"] = <<product>>]
  /\ lastOp' = "handleDeleteProduct"
  /\ calls' = <<>>
  /\ before' = PageSnapshot
  /\ UNCHANGED <<showAddModal, showUncountableModal, showEditModal,
                 showRestockModal, ops>>
  /\ UNCHANGED <<pipelineVars, catalogVars>>

\* page lines 530-534
handleRestock(product) ==
  /\ selectedProduct' = <<product>>
  /\ showRestockModal' = TRUE
  /\ openedFor' = [openedFor EXCEPT !["restock"] = <<product>>]
  /\ lastOp' = "handleRestock"
  /\ calls' = <<>>
  /\ before' = PageSnapshot
  /\ UNCHANGED <<showAddModal, showUncountableModal, showEditModal,
                 showDeleteModal, ops>>
  /\ UNCHANGED <<pipelineVars, catalogVars>>

\* page line 652 and line 664: onClose of AddProductModal and of
\* UncountableProductModal
AddModalClose(modal) ==
  /\ modal \in {"add", "uncountable"}
  /\ IF modal = "add"
     THEN showAddModal /\ showAddModal' = FALSE /\ UNCHANGED showUncountableModal
     ELSE /\ showUncountableModal
          /\ showUncountableModal' = FALSE
          /\ UNCHANGED showAddModal
  /\ lastOp' = "AddModalClose"
  /\ calls' = <<>>
  /\ before' = PageSnapshot
  /\ UNCHANGED <<showEditModal, showDeleteModal, showRestockModal,
                 selectedProduct, ops, openedFor>>
  /\ UNCHANGED <<pipelineVars, catalogVars>>

\* page lines 677-680, 687-690 and 697-700: onClose of EditProductModal,
\* DeleteProductModal and RestockModal
ProductModalClose(modal) ==
  /\ modal \in ProductModals
  /\ CASE modal = "edit" ->
            /\ showEditModal
            /\ showEditModal' = FALSE
            /\ UNCHANGED <<showDeleteModal, showRestockModal>>
       [] modal = "delete" ->
            /\ showDeleteModal
            /\ showDeleteModal' = FALSE
            /\ UNCHANGED <<showEditModal, showRestockModal>>
       [] modal = "restock" ->
            /\ showRestockModal
            /\ showRestockModal' = FALSE
            /\ UNCHANGED <<showEditModal, showDeleteModal>>
  /\ selectedProduct' = <<>>
  /\ openedFor' = [openedFor EXCEPT ![modal] = <<>>]
  /\ lastOp' = "ProductModalClose"
  /\ calls' = <<>>
  /\ before' = PageSnapshot
  /\ UNCHANGED <<showAddModal, showUncountableModal, ops>>
  /\ UNCHANGED <<pipelineVars, catalogVars>>

\* page lines 403-405: AddProductModal or UncountableProductModal calling
\* onSave = handleAddProduct, up to the await
handleAddProduct(modal) ==
  /\ modal \in {"add", "uncountable"}
  /\ IF modal = "add" THEN showAddModal ELSE showUncountableModal
  /\ Len(ops) < MaxPending
  /\ ops' = Append(ops, Op("handleAddProduct", <<>>, 0))
  /\ lastOp' = "handleAddProduct"
  /\ calls' = <<Call("createProduct", <<>>, 0)>>
  /\ before' = PageSnapshot
  /\ UNCHANGED <<showAddModal, showUncountableModal, showEditModal,
                 showDeleteModal, showRestockModal, selectedProduct, openedFor>>
  /\ UNCHANGED <<pipelineVars, catalogVars>>

\* page lines 472-474: EditProductModal calling onSave = handleUpdateProduct
\* with the id of its product, up to the await
handleUpdateProduct ==
  /\ showEditModal
  /\ selectedProduct # <<>>
  /\ Len(ops) < MaxPending
  /\ ops' = Append(ops, Op("handleUpdateProduct", selectedProduct, 0))
  /\ lastOp' = "handleUpdateProduct"
  /\ calls' = <<Call("updateProduct", selectedProduct, 0)>>
  /\ before' = PageSnapshot
  /\ UNCHANGED <<showAddModal, showUncountableModal, showEditModal,
                 showDeleteModal, showRestockModal, selectedProduct, openedFor>>
  /\ UNCHANGED <<pipelineVars, catalogVars>>

\* page lines 507-511: DeleteProductModal calling onDelete, up to the await
handleConfirmDelete ==
  /\ showDeleteModal
  /\ IF selectedProduct = <<>>
     THEN /\ calls' = <<>>
          /\ UNCHANGED ops
     ELSE /\ Len(ops) < MaxPending
          /\ ops' = Append(ops, Op("handleConfirmDelete", selectedProduct, 0))
          /\ calls' = <<Call("deleteProduct", selectedProduct, 0)>>
  /\ lastOp' = "handleConfirmDelete"
  /\ before' = PageSnapshot
  /\ UNCHANGED <<showAddModal, showUncountableModal, showEditModal,
                 showDeleteModal, showRestockModal, selectedProduct, openedFor>>
  /\ UNCHANGED <<pipelineVars, catalogVars>>

\* page lines 536-544: RestockModal calling onSave, up to the await
handleRestockProduct(quantity) ==
  /\ showRestockModal
  /\ IF selectedProduct = <<>>
     THEN /\ calls' = <<>>
          /\ UNCHANGED ops
     ELSE /\ Len(ops) < MaxPending
          /\ ops' = Append(ops, Op("handleRestockProduct", selectedProduct,
                                   selectedProduct[1].currentStock + quantity))
          /\ calls' = <<Call("updateProduct", selectedProduct, 0)>>
  /\ lastOp' = "handleRestockProduct"
  /\ before' = PageSnapshot
  /\ UNCHANGED <<showAddModal, showUncountableModal, showEditModal,
                 showDeleteModal, showRestockModal, selectedProduct, openedFor>>
  /\ UNCHANGED <<pipelineVars, catalogVars>>

\* the catch block rethrowing: the rejection leaves the handler
CatchError_Rethrows(handler) ==
  /\ calls' = <<Call("unhandledrejection", <<>>, 0)>>
  /\ UNCHANGED <<showAddModal, showEditModal, showDeleteModal,
                 showRestockModal, selectedProduct, openedFor>>

\* the catch block also closing the modal of the handler
CatchError_ClosesModal(handler) ==
  /\ calls' = <<Toast("Error", "destructive", <<>>, 0)>>
  /\ showAddModal' = (showAddModal /\ handler # "handleAddProduct")
  /\ showEditModal' = (showEditModal /\ handler # "handleUpdateProduct")
  /\ showDeleteModal' = (showDeleteModal /\ handler # "handleConfirmDelete")
  /\ showRestockModal' = (showRestockModal /\ handler # "handleRestockProduct")
  /\ UNCHANGED <<selectedProduct, openedFor>>

\* page lines 421-428, 491-498, 520-527 and 562-569: the catch blocks
CatchError(handler) ==
  /\ calls' = <<Toast("Error", "destructive", <<>>, 0)>>
  /\ UNCHANGED <<showAddModal, showEditModal, showDeleteModal,
                 showRestockModal, selectedProduct, openedFor>>

\* page lines 406-420: handleAddProduct after the await
AfterCreate(isOnline) ==
  /\ showAddModal' = FALSE
  /\ calls' = <<Toast(IF isOnline THEN "Product Added"
                      ELSE "Product Added Offline", "default", <<>>, 0)>>
  /\ UNCHANGED <<showEditModal, showDeleteModal, showRestockModal,
                 selectedProduct, openedFor>>

\* page lines 475-490: handleUpdateProduct after the await
AfterUpdate(isOnline) ==
  /\ showEditModal' = FALSE
  /\ selectedProduct' = <<>>
  /\ openedFor' = [openedFor EXCEPT !["edit"] = <<>>]
  /\ calls' = <<Toast(IF isOnline THEN "Product Updated"
                      ELSE "Product Updated Offline", "default", <<>>, 0)>>
  /\ UNCHANGED <<showAddModal, showDeleteModal, showRestockModal>>

\* page lines 512-519: handleConfirmDelete after the await
AfterDelete ==
  /\ showDeleteModal' = FALSE
  /\ selectedProduct' = <<>>
  /\ openedFor' = [openedFor EXCEPT !["delete"] = <<>>]
  /\ calls' = <<Toast("Product Deleted", "default", <<>>, 0)>>
  /\ UNCHANGED <<showAddModal, showEditModal, showRestockModal>>

\* page lines 546-561: handleRestockProduct after the await
AfterRestock(isOnline, newStock) ==
  /\ showRestockModal' = FALSE
  /\ selectedProduct' = <<>>
  /\ openedFor' = [openedFor EXCEPT !["restock"] = <<>>]
  /\ calls' = <<IF isOnline
                THEN Toast("Product Restocked", "default", <<newStock>>, 0)
                ELSE Toast("Restock Recorded Offline", "default", <<>>, 0)>>
  /\ UNCHANGED <<showAddModal, showEditModal, showDeleteModal>>

\* lastOp of a settled handler
SettledName(handler, outcome) ==
  CASE handler = "handleAddProduct" ->
         (IF outcome = "fulfilled" THEN "handleAddProduct fulfilled"
          ELSE "handleAddProduct rejected")
    [] handler = "handleUpdateProduct" ->
         (IF outcome = "fulfilled" THEN "handleUpdateProduct fulfilled"
          ELSE "handleUpdateProduct rejected")
    [] handler = "handleConfirmDelete" ->
         (IF outcome = "fulfilled" THEN "handleConfirmDelete fulfilled"
          ELSE "handleConfirmDelete rejected")
    [] handler = "handleRestockProduct" ->
         (IF outcome = "fulfilled" THEN "handleRestockProduct fulfilled"
          ELSE "handleRestockProduct rejected")

\* The promise the i-th awaiting handler waits for settles with outcome, and
\* the handler resumes: after the await, or in its catch block (page lines
\* 403-429, 472-499, 507-528, 536-570).
SettleOp(i, outcome, isOnline) ==
  /\ i \in 1..Len(ops)
  /\ ops' = RemoveAt(ops, i)
  /\ IF outcome = "rejected" THEN CatchError(ops[i].handler)
     ELSE CASE ops[i].handler = "handleAddProduct" -> AfterCreate(isOnline)
            [] ops[i].handler = "handleUpdateProduct" -> AfterUpdate(isOnline)
            [] ops[i].handler = "handleConfirmDelete" -> AfterDelete
            [] ops[i].handler = "handleRestockProduct" ->
                 AfterRestock(isOnline, ops[i].newStock)
  /\ lastOp' = SettledName(ops[i].handler, outcome)
  /\ before' = PageSnapshot
  /\ UNCHANGED showUncountableModal
  /\ UNCHANGED <<pipelineVars, catalogVars>>

\* every input the model types into a cell of the field
FieldInputs(field) ==
  IF field = "name" THEN NameInputs
  ELSE IF field = "category" THEN CategoryInputs
  ELSE IF field = "sellingPrice" THEN {ParseNumber(raw) : raw \in PriceInputs}
  ELSE {ParseNumber(raw) : raw \in NumberInputs}

\* the two required fields, one value each
QuickFields == {"name", "sellingPrice"}
QuickInputs(field) == IF field = "name" THEN {<<"W">>} ELSE {ParseNumber("7")}

Quiescent == \A s \in Slots : jobs[s] = <<>>

\* no modal covers the page header, where the Add menu is
HeaderReachable == ~showTemplatesPanel /\ ~showVariationModal

\* The whole pipeline: every handler, every interleaving with the settling of
\* createProduct promises; cells receive the two required fields only, and the
\* Add menu is used while no modal is open.
Next ==
  \/ /\ HeaderReachable
     /\ \E mode \in {"bulk", "variation"} : handleAddProductMode(mode)
  \/ \E i \in EditedRows, field \in QuickFields :
       \E value \in QuickInputs(field) : EditField(i, field, value)
  \/ \E template \in QuickTemplates : handleTemplateSelect(template)
  \/ toggleView
  \/ handleClearAll
  \/ downloadTemplate
  \/ handleClose
  \/ handleSave
  \/ \E n \in VariationSizes : VariationSave(n)
  \/ VariationClose
  \/ \E s \in Slots : \E i \in 1..Len(jobs[s]) :
       \E outcome \in {"fulfilled", "rejected"} : SettleCreate(s, i, outcome)

Spec == Init /\ [][Next]_vars

\* The row store: every field and every input of a cell, edited while no bulk
\* create is awaiting; the spreadsheet view only.
NextRows ==
  \/ /\ HeaderReachable
     /\ handleAddProductMode("bulk")
  \/ /\ Quiescent
     /\ \E i \in EditedRows, field \in Fields :
          \E value \in FieldInputs(field) : EditField(i, field, value)
  \/ handleClearAll
  \/ handleClose
  \/ handleSave
  \/ \E s \in Slots : \E i \in 1..Len(jobs[s]) :
       \E outcome \in {"fulfilled", "rejected"} : SettleCreate(s, i, outcome)

SpecRows == Init /\ [][NextRows]_vars

\* The selection set: every template object clicked, in both views, with one
\* row edited so that a save and its bulk create can happen in between.
NextSelection ==
  \/ /\ HeaderReachable
     /\ handleAddProductMode("bulk")
  \/ \E field \in QuickFields :
       \E value \in QuickInputs(field) : EditField(1, field, value)
  \/ \E template \in Templates : handleTemplateSelect(template)
  \/ toggleView
  \/ handleClearAll
  \/ handleClose
  \/ handleSave
  \/ \E s \in Slots : \E i \in 1..Len(jobs[s]) :
       \E outcome \in {"fulfilled", "rejected"} : SettleCreate(s, i, outcome)

SpecSelection == Init /\ [][NextSelection]_vars

\* The template filter: every catalog value, search text and category while
\* the modal is open, and the modal closed and reopened in between.
NextFilter ==
  \/ /\ HeaderReachable
     /\ handleAddProductMode("bulk")
  \/ handleClose
  \/ \E value \in TemplatesInputs : TemplatesChanged(value)
  \/ \E term \in SearchInputs : setLocalSearchTerm(term)
  \/ \E category \in CategorySelections : setSelectedCategory(category)

SpecFilter == Init /\ [][NextFilter]_vars

\* no modal covers the page: its header and its product grid can be used
PageReachable ==
  /\ HeaderReachable
  /\ ~showAddModal /\ ~showUncountableModal
  /\ ~showEditModal /\ ~showDeleteModal /\ ~showRestockModal

\* The inventory page: the single-product modals and the variation modal,
\* each opened while no modal is open, and every interleaving of the user's
\* actions with the settling of the product store's promises.
NextPage ==
  \/ /\ PageReachable
     /\ \E mode \in {"normal", "uncountable", "variation"} :
          handleAddProductMode(mode)
  \/ /\ PageReachable
     /\ \E product \in PageProducts : handleEditProduct(product)
  \/ /\ PageReachable
     /\ \E product \in PageProducts : handleDeleteProduct(product)
  \/ /\ PageReachable
     /\ \E product \in PageProducts : handleRestock(product)
  \/ \E modal \in {"add", "uncountable"} : AddModalClose(modal)
  \/ \E modal \in ProductModals : ProductModalClose(modal)
  \/ \E modal \in {"add", "uncountable"} : handleAddProduct(modal)
  \/ handleUpdateProduct
  \/ handleConfirmDelete
  \/ \E quantity \in RestockQuantities : handleRestockProduct(quantity)
  \/ \E i \in 1..Len(ops) : \E outcome \in {"fulfilled", "rejected"} :
       \E isOnline \in BOOLEAN : SettleOp(i, outcome, isOnline)
  \/ \E n \in VariationSizes : VariationSave(n)
  \/ VariationClose
  \/ \E s \in Slots : \E i \in 1..Len(jobs[s]) :
       \E outcome \in {"fulfilled", "rejected"} : SettleCreate(s, i, outcome)

SpecPage == Init /\ [][NextPage]_vars

\* ----------------------------------------------------------- properties

\* the state the last handler started from
Pre == before[1]

\* positions of the rows that handleSave must turn into products
QualIdx(rows) ==
  {i \in 1..Len(rows) : rows[i].isValid /\ Trim(rows[i].name) # <<>>}

\* the position of the k-th such row
KthQual(rows, k) ==
  CHOOSE i \in QualIdx(rows) : Cardinality({j \in QualIdx(rows) : j < i}) = k - 1

SaveRan == lastOp = "handleSave" /\ before # <<>>
SavedSome == SaveRan /\ QualIdx(Pre.rows) # {}
SavedNone == SaveRan /\ QualIdx(Pre.rows) = {}

\* the list handed to onSave by the last handler
OnSaveArg == CallsOf(calls, "onSave")[1].products

NoValidWithEmptyName(rows) ==
  \A i \in 1..Len(rows) : rows[i].isValid => Trim(rows[i].name) # <<>>

C2_ProductFields ==
  SavedSome =>
    \A k \in 1..Len(OnSaveArg) :
      k <= Cardinality(QualIdx(Pre.rows)) =>
        LET row == Pre.rows[KthQual(Pre.rows, k)]
            p == OnSaveArg[k]
        IN /\ p.name = Trim(row.name)
           /\ p.category = row.category
           /\ Num(p.sellingPrice) = row.sellingPrice
           /\ row.costPrice = Unset => p.costPrice = 0
           /\ row.currentStock = Unset => p.currentStock = 0
           /\ row.lowStockThreshold = Unset => p.lowStockThreshold = 10
           /\ p.description = "" /\ p.barcode = "" /\ p.imageUrl = ""

\* a saved row whose name needs trimming, with a positive selling price and
\* cost price, stock and threshold all unset
C2_Witness ==
  /\ SavedSome
  /\ \E k \in 1..Len(OnSaveArg) :
       LET row == Pre.rows[KthQual(Pre.rows, k)] IN
         /\ row.name # Trim(row.name)
         /\ row.sellingPrice = Num(7)
         /\ row.costPrice = Unset /\ row.currentStock = Unset
         /\ row.lowStockThreshold = Unset
         /\ OnSaveArg[k].lowStockThreshold = 10

\* C3: save() with no qualifying row emits the destructive "No Valid Products"
\* notification and nothing else: no onSave, no createProduct, no onClose, and
\* rows, selection, view mode and open flag are as before.
C3_EmptySaveOnlyNotifies ==
  SavedNone =>
    /\ calls = <<Toast("No Valid Products", "destructive", <<>>, 0)>>
    /\ CallsOf(calls, "onSave") = <<>>
    /\ CallsOf(calls, "createProduct") = <<>>
    /\ CallsOf(calls, "onClose") = <<>>
    /\ spreadsheetData = Pre.rows
    /\ selectedTemplates = Pre.sel
    /\ viewMode = Pre.view
    /\ showTemplatesPanel = Pre.open
    /\ jobs = Pre.jobs

\* an empty save on a store with a filled row, a selection and the templates view
C3_Witness ==
  /\ SavedNone
  /\ calls # <<>> /\ calls[1].title = "No Valid Products"
  /\ filledProductsCount(spreadsheetData) > 0
  /\ selectedTemplates # <<>>
  /\ viewMode = "templates"
  /\ showTemplatesPanel

\* a createProduct promise settled and the await of handleBulkAddProducts resumed
SettleRan ==
  lastOp \in {"createProduct fulfilled", "createProduct rejected"} /\ before # <<>>
BulkResumed == SettleRan /\ calls # <<>>

\* the slot whose bulk create resumed
ResumedSlot == CHOOSE s \in Slots : Pre.jobs[s] # <<>> /\ jobs[s] = <<>>

\* the outcomes Promise.allSettled resolved with: those settled earlier, and
\* the outcome of the promise that settled last
FinalResults ==
  [k \in 1..Len(Pre.jobs[ResumedSlot]) |->
     IF Pre.jobs[ResumedSlot][k] # "pending" THEN Pre.jobs[ResumedSlot][k]
     ELSE IF lastOp = "createProduct fulfilled" THEN "fulfilled" ELSE "rejected"]

NumFulfilled == Cardinality({k \in DOMAIN FinalResults : FinalResults[k] = "fulfilled"})
NumRejected == Cardinality({k \in DOMAIN FinalResults : FinalResults[k] = "rejected"})

\* C4: a bulk create of N products calls createProduct once per product, each
\* promise settling on its own; once all have settled the notification reports
\* successful = fulfilled and failed = rejected creations, successful + failed
\* = N, and the bulk-add panel is closed, with or without failures.
C4_BulkCreateCountsAndCloses ==
  /\ \A c \in 1..Len(calls) :
       calls[c].call = "onSave" =>
         /\ CallsOf(calls, "createProduct")
              = [k \in 1..Len(calls[c].products) |->
                   Call("createProduct", <<calls[c].products[k]>>, calls[c].slot)]
         /\ jobs[calls[c].slot] = [k \in 1..Len(calls[c].products) |-> "pending"]
  /\ BulkResumed =>
       /\ \E s \in Slots : Pre.jobs[s] # <<>> /\ jobs[s] = <<>>
       /\ Len(calls) = 1 /\ calls[1].call = "toast"
       /\ NumFulfilled + NumRejected = Len(Pre.jobs[ResumedSlot])
       /\ calls[1].counts = (IF NumRejected = 0 THEN <<NumFulfilled>>
                             ELSE <<NumFulfilled, NumRejected>>)
       /\ calls[1].title = (IF NumRejected = 0 THEN "Bulk Products Added"
                            ELSE "Partial Success")
       /\ ~showTemplatesPanel

\* two products, the second rejected, settled while the panel was open:
\* successful = 1, failed = 1 and the panel is closed
C4_Witness ==
  /\ BulkResumed
  /\ Pre.open
  /\ FinalResults = <<"fulfilled", "rejected">>
  /\ calls[1].counts = <<1, 1>>
  /\ ~showTemplatesPanel

\* C5: no notification reporting a number of added products is emitted before
\* every createProduct promise of that save has settled.
C5_CountsOnlyAfterAllSettled ==
  \A c \in 1..Len(calls) :
    (calls[c].call = "toast" /\ calls[c].counts # <<>>) =>
      \A k \in 1..Len(jobs[calls[c].slot]) : jobs[calls[c].slot][k] # "pending"

\* C6: save() with a qualifying row calls onSave exactly once with the product
\* list and leaves the row store empty, the selection empty, the view mode
\* 'spreadsheet', onClose called exactly once and the pipeline closed.
C6_SaveResetsThenCloses ==
  SavedSome =>
    /\ Len(CallsOf(calls, "onSave")) = 1
    /\ Len(OnSaveArg) = Cardinality(QualIdx(Pre.rows))
    /\ spreadsheetData = <<>>
    /\ selectedTemplates = <<>>
    /\ viewMode = "spreadsheet"
    /\ Len(CallsOf(calls, "onClose")) = 1
    /\ ~showTemplatesPanel

\* a save started in the templates view with a template selected
C6_Witness ==
  /\ SavedSome
  /\ Len(CallsOf(calls, "onSave")) = 1
  /\ Pre.sel # <<>>
  /\ Pre.view = "templates"
  /\ ~showTemplatesPanel

\* C7: whenever the pipeline is closed its row store and its selection set are
\* empty, however it was closed.
C7_ClosedPipelineHoldsNoData ==
  ~showTemplatesPanel => spreadsheetData = <<>> /\ selectedTemplates = <<>>

ClearRan == lastOp = "handleClearAll" /\ before # <<>>

IsBlank(row) ==
  /\ row.name = <<>> /\ row.category = ""
  /\ row.costPrice = Unset /\ row.sellingPrice = Unset
  /\ row.currentStock = Unset /\ row.lowStockThreshold = Unset
  /\ row.isValid = FALSE /\ row.errors = <<>>

\* C8: clearAll() keeps the number of rows and every row's id in order, blanks
\* every row (so countFilled() = countValid() = 0), empties the selection and
\* changes neither the open flag nor the view mode.
C8_ClearAllBlanksRowsKeepsIds ==
  ClearRan =>
    /\ Len(spreadsheetData) = Len(Pre.rows)
    /\ \A i \in 1..Len(spreadsheetData) :
         /\ spreadsheetData[i].id = Pre.rows[i].id
         /\ IsBlank(spreadsheetData[i])
    /\ filledProductsCount(spreadsheetData) = 0
    /\ validProductsCount(spreadsheetData) = 0
    /\ selectedTemplates = <<>>
    /\ showTemplatesPanel = Pre.open
    /\ viewMode = Pre.view

\* clearAll() on a store with a valid row, a selection and the templates view
C8_Witness ==
  /\ ClearRan
  /\ validProductsCount(Pre.rows) > 0
  /\ Pre.sel # <<>>
  /\ Pre.view = "templates"
  /\ viewMode = "templates"
  /\ Len(spreadsheetData) = InitialRowCount

OpenRan == lastOp = "handleAddProductMode" /\ before # <<>>
Opened == OpenRan /\ showTemplatesPanel /\ ~Pre.open

\* C9: opening the pipeline on an empty row store creates 20 blank rows with
\* pairwise distinct ids; opening it on a non-empty row store leaves every row
\* and the row count unchanged.
C9_OpenInitializesOnlyWhenEmpty ==
  /\ (Opened /\ Pre.rows = <<>>) =>
       /\ Len(spreadsheetData) = 20
       /\ \A i, j \in 1..Len(spreadsheetData) :
            i # j => spreadsheetData[i].id # spreadsheetData[j].id
       /\ \A i \in 1..Len(spreadsheetData) : IsBlank(spreadsheetData[i])
  /\ (OpenRan /\ showTemplatesPanel /\ Pre.rows # <<>>) =>
       spreadsheetData = Pre.rows

\* the pipeline reopened on a store that still holds a filled row
C9_Witness ==
  /\ Opened
  /\ Pre.rows # <<>>
  /\ filledProductsCount(spreadsheetData) > 0

\* C10: every row of the store has isValid exactly when its trimmed name is
\* non-empty and its selling price is a present non-negative number; cost
\* price, stock and threshold play no part.
C10_ValidIffNameAndPrice ==
  \A i \in 1..Len(spreadsheetData) :
    spreadsheetData[i].isValid <=>
      /\ Trim(spreadsheetData[i].name) # <<>>
      /\ spreadsheetData[i].sellingPrice # Unset
      /\ spreadsheetData[i].sellingPrice[1] >= 0

\* a valid row whose cost price, stock and threshold are unset, beside a row
\* that has a name and no selling price and is not valid
C10_Witness ==
  \E i, j \in 1..Len(spreadsheetData) :
    /\ spreadsheetData[i].isValid
    /\ spreadsheetData[i].costPrice = Unset
    /\ spreadsheetData[i].currentStock = Unset
    /\ spreadsheetData[i].lowStockThreshold = Unset
    /\ ~spreadsheetData[j].isValid
    /\ Trim(spreadsheetData[j].name) # <<>>
    /\ spreadsheetData[j].sellingPrice = Unset

\* the editable fields of the row are all empty or unset
FieldsBlank(row) ==
  /\ row.name = <<>> /\ row.category = ""
  /\ row.costPrice = Unset /\ row.sellingPrice = Unset
  /\ row.currentStock = Unset /\ row.lowStockThreshold = Unset

\* C11 as stated: in every state, right after initialisation and clearAll()
\* included, a row's errors list is empty exactly when the row is valid.
C11_ErrorsEmptyIffValid ==
  \A i \in 1..Len(spreadsheetData) :
    (spreadsheetData[i].errors = <<>>) <=> spreadsheetData[i].isValid

\* C11 amended: a valid row has no errors, and a row that is not valid has an
\* empty errors list only while it is a blank row (as initialisation and
\* clearAll() leave it: every editable field empty or unset).
C11_ErrorsEmptyIffValidOrBlank ==
  \A i \in 1..Len(spreadsheetData) :
    /\ spreadsheetData[i].isValid => spreadsheetData[i].errors = <<>>
    /\ (spreadsheetData[i].errors = <<>> /\ ~spreadsheetData[i].isValid)
         => FieldsBlank(spreadsheetData[i])

\* a valid row without errors, a named row with an error, and a blank row that
\* is not valid and has no errors, in one store
C11_Witness ==
  \E i, j, k \in 1..Len(spreadsheetData) :
    /\ spreadsheetData[i].isValid /\ spreadsheetData[i].errors = <<>>
    /\ ~spreadsheetData[j].isValid /\ spreadsheetData[j].errors # <<>>
    /\ Trim(spreadsheetData[j].name) # <<>>
    /\ ~spreadsheetData[k].isValid /\ spreadsheetData[k].errors = <<>>
    /\ FieldsBlank(spreadsheetData[k])

\* the value a product field must have for a row field under "default only
\* when absent"
CarriedOrDefault(x, d) == IF x = Unset THEN d ELSE x[1]

\* C12: at save time 0, 0 and 10 replace costPrice, currentStock and
\* lowStockThreshold only where the row field is unset; a present non-negative
\* number, 0 included, reaches the product unchanged.
C12_DefaultsOnlyWhenUnset ==
  SavedSome =>
    \A k \in 1..Len(OnSaveArg) :
      k <= Cardinality(QualIdx(Pre.rows)) =>
        LET row == Pre.rows[KthQual(Pre.rows, k)]
            p == OnSaveArg[k]
        IN /\ (row.costPrice = Unset \/ row.costPrice[1] >= 0)
                => p.costPrice = CarriedOrDefault(row.costPrice, 0)
           /\ (row.currentStock = Unset \/ row.currentStock[1] >= 0)
                => p.currentStock = CarriedOrDefault(row.currentStock, 0)
           /\ (row.lowStockThreshold = Unset \/ row.lowStockThreshold[1] >= 0)
                => p.lowStockThreshold = CarriedOrDefault(row.lowStockThreshold, 10)

ToggleRan == lastOp = "handleTemplateSelect" /\ before # <<>>

\* the template the last handleTemplateSelect was called with
ToggledTemplate == calls[1].products[1]

\* the identifiers in a selection
SelIds(selected) == {selected[k].id : k \in 1..Len(selected)}

\* toggleSelect(t) flips t's identifier and no other, the selection holds one
\* entry per identifier at most, and isSelected(t) is the parity of t's toggles
\* since the pipeline was last cleared or closed
ToggleFlipsAndParity ==
  /\ \A i, j \in 1..Len(selectedTemplates) :
       i < j => selectedTemplates[i].id # selectedTemplates[j].id
  /\ showTemplatesPanel =>
       \A t \in Templates : isSelected(selectedTemplates, t) <=> t.id \in toggled
  /\ ToggleRan =>
       /\ (ToggledTemplate.id \in SelIds(Pre.sel))
            <=> (ToggledTemplate.id \notin SelIds(selectedTemplates))
       /\ \A id \in TemplateIds \ {ToggledTemplate.id} :
            (id \in SelIds(Pre.sel)) <=> (id \in SelIds(selectedTemplates))

\* a toggle that follows a toggle of the same identifier restores the
\* membership the first one found
SecondToggleRestores ==
  (/\ ToggleRan
   /\ lastOp' = "handleTemplateSelect"
   /\ calls'[1].products[1].id = ToggledTemplate.id)
    => SelIds(selectedTemplates') = SelIds(Pre.sel)

\* C13: toggleSelect(t) removes t's identifier from the selection if present
\* and adds it otherwise, by identifier and not by object, leaving every other
\* identifier alone; so the selection holds at most one entry per identifier,
\* isSelected(t) holds exactly when t was toggled an odd number of times since
\* the last clear/close, and two consecutive toggles of one template restore
\* the previous membership.
C13_ToggleByIdentifier ==
  []ToggleFlipsAndParity /\ [][SecondToggleRestores]_vars

\* the templates the filter was applied to
Catalog == templates.items

\* C14 as stated: the result is, in input order, exactly the templates for
\* which (the search term is empty or is, ignoring case, a substring of the
\* name or of the category) and (the category is 'all' or equals the
\* template's category).
C14_FilterAsStated ==
  (showTemplatesPanel /\ templates.isArray) =>
    filteredTemplates =
      SelectSeq(Catalog, LAMBDA t :
        /\ \/ localSearchTerm = <<>>
           \/ includes(toLowerCase(t.name), toLowerCase(localSearchTerm))
           \/ /\ t.category # <<>>
              /\ includes(toLowerCase(t.category[1]), toLowerCase(localSearchTerm))
        /\ \/ selectedCategory = All
           \/ t.category = <<selectedCategory>>)

\* C14 amended: the same with the search term trimmed first, and with the
\* empty category (the select's initial value) a no-op like 'all'; with a
\* blank search term and no category the input is returned unchanged.
C14_FilterTrimsTermAndSkipsEmptyCategory ==
  (showTemplatesPanel /\ templates.isArray) =>
    /\ filteredTemplates =
         SelectSeq(Catalog, LAMBDA t :
           /\ \/ Trim(localSearchTerm) = <<>>
              \/ includes(toLowerCase(t.name), toLowerCase(Trim(localSearchTerm)))
              \/ /\ t.category # <<>>
                 /\ includes(toLowerCase(t.category[1]),
                             toLowerCase(Trim(localSearchTerm)))
           /\ \/ selectedCategory \in {<<>>, All}
              \/ t.category = <<selectedCategory>>)
    /\ (Trim(localSearchTerm) = <<>> /\ selectedCategory \in {<<>>, All})
         => filteredTemplates = Catalog

\* an upper-case, padded search term with a concrete category keeps the first
\* and the last of three templates, in that order, and drops the middle one
C14_Witness ==
  /\ showTemplatesPanel /\ templates.isArray
  /\ Len(Catalog) = 3
  /\ localSearchTerm # Trim(localSearchTerm)
  /\ toLowerCase(localSearchTerm) # localSearchTerm
  /\ selectedCategory \notin {<<>>, All}
  /\ filteredTemplates = <<Catalog[1], Catalog[3]>>
  /\ Catalog[2] # Catalog[1]

DownloadRan == lastOp = "downloadTemplate" /\ before # <<>>

\* C16: exportTemplate() downloads, under the file name
\* bulk-products-template.csv, the fixed CSV of three lines (the header and the
\* two sample rows) whatever the row store holds, and leaves the rows, the
\* selection, the view mode and the open flag as they were.
C16_ExportIsFixedAndStateless ==
  DownloadRan =>
    /\ Len(CallsOf(calls, "link.click")) = 1
    /\ CallsOf(calls, "link.click")[1].title = "bulk-products-template.csv"
    /\ CallsOf(calls, "link.click")[1].products =
         <<"Name,Category,Cost Price,Selling Price,Current Stock,Low Stock Threshold",
           "\n", "Sample Product,General,10.00,15.00,100,10",
           "\n", "Another Product,Electronics,25.50,35.00,50,5">>
    /\ spreadsheetData = Pre.rows
    /\ selectedTemplates = Pre.sel
    /\ viewMode = Pre.view
    /\ showTemplatesPanel = Pre.open

\* an export from the templates view while the store holds a valid row and a
\* template is selected
C16_Witness ==
  /\ DownloadRan
  /\ CallsOf(calls, "link.click") # <<>>
  /\ validProductsCount(spreadsheetData) > 0
  /\ selectedTemplates # <<>>
  /\ viewMode = "templates"
  /\ showTemplatesPanel

\* a single-product handler resumed in its catch block
CatchRan ==
  /\ lastOp \in {"handleAddProduct rejected", "handleUpdateProduct rejected",
                 "handleConfirmDelete rejected", "handleRestockProduct rejected"}
  /\ before # <<>>

ErrorToasts == SelectSeq(calls, LAMBDA c : c.call = "toast" /\ c.variant = "destructive")

\* C15: a rejection of createProduct, updateProduct or deleteProduct in the
\* single-add, bulk-add, edit, delete-confirm or restock handler is caught in
\* that handler and shown as an error notification; none leaves the handler.
C15_RejectionsAreCaughtAndNotified ==
  /\ CallsOf(calls, "unhandledrejection") = <<>>
  /\ CatchRan => Len(ErrorToasts) = 1
  /\ (BulkResumed /\ NumRejected > 0) => Len(ErrorToasts) = 1

\* updateProduct rejected for the edit modal, and the error toast is the one
\* thing the handler did
C15_Witness ==
  /\ CatchRan
  /\ lastOp = "handleUpdateProduct rejected"
  /\ calls = <<Toast("Error", "destructive", <<>>, 0)>>

\* the modal of the product modals is open
ModalOpen(m) ==
  CASE m = "edit" -> showEditModal
    [] m = "delete" -> showDeleteModal
    [] m = "restock" -> showRestockModal

\* C17: whenever the edit, delete or restock modal is open, selectedProduct is
\* not null and is the product the modal was opened for, whatever the
\* interleaving of opening and closing modals with a pending updateProduct or
\* deleteProduct started from another modal.
C17_OpenModalShowsItsProduct ==
  \A m \in ProductModals :
    ModalOpen(m) => (selectedProduct # <<>> /\ selectedProduct = openedFor[m])

\* a single-product handler ran up to its await
HandlerStarted ==
  /\ lastOp \in {"handleAddProduct", "handleUpdateProduct",
                 "handleConfirmDelete", "handleRestockProduct"}
  /\ before # <<>>

\* the modal flags and selectedProduct are those the last step started from
PageStateKept ==
  /\ showAddModal = Pre.add
  /\ showUncountableModal = Pre.uncountable
  /\ showEditModal = Pre.edit
  /\ showDeleteModal = Pre.delete
  /\ showRestockModal = Pre.restock
  /\ selectedProduct = Pre.selected

\* C18: a rejection in the single-add, edit, delete-confirm or restock handler
\* leaves the page state as it was (the modal still open, selectedProduct
\* unchanged); the handler closes the modal and clears selectedProduct only
\* once the call has fulfilled, so not before the await either.
C18_RejectionKeepsModalAndProduct ==
  (CatchRan \/ HandlerStarted) => PageStateKept

\* deleteProduct rejected while the delete modal shows its product: the modal
\* is still open on that product
C18_Witness ==
  /\ CatchRan
  /\ lastOp = "handleConfirmDelete rejected"
  /\ Pre.delete /\ showDeleteModal
  /\ Pre.selected # <<>> /\ selectedProduct = Pre.selected
  /\ selectedProduct = openedFor["delete"]

====
